---- MODULE Spec2Model ----
(***************************************************************************)
(* Model of onedrive_d/api/drives.py.                                      *)
(*  - Spec / FairSpec: one call of a DriveObject operation (upload_file,   *)
(*    put_file, put_large_file, download_file, get_file_content,           *)
(*    delete_item, update_item, copy_item) on a drive whose configuration  *)
(*    is fixed at construction.                                            *)
(*  - DriveSpec: the DriveRoot cache under any sequence of get_drive,      *)
(*    get_default_drive, get_all_drives, add_cached_drive,                 *)
(*    purge_drive_cache, DriveObject.load and DriveObject.refresh.         *)
(* The HTTP session and the server are the environment: every request is   *)
(* answered with a status drawn from ServerStatuses.                       *)
(***************************************************************************)
EXTENDS Integers, Sequences, TLC

VARIABLES config, pc, op, size, data, expected_ranges, current_session,
          requests, responses, t, file, result,
          item_ref, cached_drives, handed_drives, drive_call

vars == <<config, pc, op, size, data, expected_ranges, current_session,
          requests, responses, t, file, result,
          item_ref, cached_drives, handed_drives, drive_call>>

\* The state of the transfer operations, of the item operations and of the
\* drive root.
transferVars == <<size, data, expected_ranges, current_session, t, file>>

driveVars == <<cached_drives, handed_drives, drive_call>>

(* ------------------------------ bounds -------------------------------- *)

MaxSize == 5

MaxThreshold == 3

MaxSessionState == 1

MaxVersion == 1

(* --------------------------- HTTP status codes ------------------------ *)

OK == 200

CREATED == 201

ACCEPTED == 202

NO_CONTENT == 204

PARTIAL == 206

SERVER_ERROR == 500

ServerStatuses == {OK, CREATED, ACCEPTED, NO_CONTENT, PARTIAL, SERVER_ERROR}

(* ------------------------------ helpers ------------------------------- *)

Min(a, b) == IF a <= b THEN a ELSE b

Last(s) == s[Len(s)]

\* The byte stored at offset off of the content being transferred.
ByteAt(off) == (off * 3 + 1) % 256

Content(n) == [i \in 1..n |-> ByteAt(i - 1)]

\* Sizes a caller may pass; put_large_file performs no argument check, so
\* zero and a negative size reach its body.
Sizes == (0 - 1)..MaxSize

\* Lengths of the source file handed to an upload of declared size sz.
DataLens(sz) == {n \in 0..MaxSize : n >= sz /\ n <= sz + 1}

\* str(int)
str(n) == ToString(n)

NoneValue == [kind |-> "None", next |-> 0]

NoSession == [upload_url |-> "", next |-> 0]

\* The body the server sends with a status: an upload session for 202, the
\* finished item for 200/201, an error document otherwise.
SessionBodies == {[kind |-> "session", next |-> n] : n \in 0..MaxSessionState}

ResponseBodies(status) ==
  IF status = ACCEPTED
  THEN SessionBodies
  ELSE IF status \in {OK, CREATED}
       THEN {[kind |-> "item", next |-> 0]}
       ELSE IF status = NO_CONTENT
            THEN {[kind |-> "empty", next |-> 0]}
            ELSE {[kind |-> "error", next |-> 0]}

\* session.<verb>(..., ok_status_code=c): the response is handed back only
\* when its status is the expected one, otherwise the call raises.
StatusAccepted(status, ok_status_code) == status = ok_status_code

FileRead_noseek(d, pos, n) ==
  IF n < 0 THEN d ELSE SubSeq(d, 1, Min(n, Len(d)))

\* data.seek(pos); data.read(n): n bytes from pos, fewer at end of file,
\* everything up to end of file for a negative n.
FileRead(d, pos, n) ==
  IF n < 0 THEN SubSeq(d, pos + 1, Len(d))
  ELSE SubSeq(d, pos + 1, Min(pos + n, Len(d)))

\* file.write(content) on a sink opened for sequential writing.
FileWrite_overwrite(f, content) == content

FileWrite(f, content) == f \o content

(* ----------------------------- dispatch ------------------------------- *)

UploadDispatch_strict(sz, max) ==
  IF sz < max THEN "put_file" ELSE "put_large_file"

\* upload_file: size <= max_put_size_bytes -> put_file, else put_large_file
UploadDispatch(sz, max) ==
  IF sz <= max THEN "put_file" ELSE "put_large_file"

\* download_file: size <= max_get_size_bytes -> one plain GET, else the loop
DownloadDispatch(sz, max) ==
  IF sz <= max THEN "get_single" ELSE "get_loop"

(* ------------------------- put_large_file steps ----------------------- *)

NextCursor_off(f, max) == f + max + 1

NextCursor_session(f, max) == f + max + current_session.next

\* next_cursor = f + self.config.max_put_size_bytes
NextCursor(f, max) == f + max

\* if t is None or t >= size: t = size - 1   (the plan is local, never None)
ClampTo(to, sz) == IF to >= sz THEN sz - 1 ELSE to

SplitRange_eager(f, to, sz, max) ==
  LET tc == IF to >= sz THEN sz - 1 ELSE to
      nc == f + max
  IN IF tc >= nc - 1
     THEN [f |-> f, t |-> nc - 1, inserted |-> << <<nc, tc>> >>]
     ELSE [f |-> f, t |-> tc, inserted |-> << >>]

\* One pass of the loop body over the popped entry (f, to): the fragment to
\* send and the entries put back at the front of the worklist.
SplitRange(f, to, sz, max) ==
  LET tc == ClampTo(to, sz)
      nc == NextCursor(f, max)
  IN IF tc >= nc
     THEN [f |-> f, t |-> nc - 1, inserted |-> << <<nc, tc>> >>]
     ELSE [f |-> f, t |-> tc, inserted |-> << >>]

\* 'Content-Range': str(f) + '-' + str(t) + '/' + size_str
ContentRange(f, to, sz) == str(f) \o "-" \o str(to) \o "/" \o str(sz)

PutSendNextPc_async == "upload_loop"

\* session.put(...) is a blocking call: the loop waits for its response.
PutSendNextPc == "put_wait"

PutResponseNextPc_swallow(ok) == "upload_loop"

\* A PUT that raises ends put_large_file; otherwise the loop goes on.
PutResponseNextPc(ok) == IF ok THEN "upload_loop" ELSE "raised"

InitialRanges_closed(sz) == << <<0, sz>> >>

\* expected_ranges = [(0, size - 1)]
InitialRanges(sz) == << <<0, sz - 1>> >>

\* current_session.update(request.json())
SessionUpdate(session, body) ==
  [upload_url |-> session.upload_url, next |-> body.next]

Request(method, url, headers, body, ok_status_code, range) ==
  [method |-> method, url |-> url, headers |-> headers, body |-> body,
   ok_status_code |-> ok_status_code, range |-> range]

NoRange == << >>

(* -------------------------- download_file steps ---------------------- *)

RangeEnd_wide(from, sz, max) ==
  IF from + max >= sz THEN sz - 1 ELSE from + max

\* t += max_get_size_bytes - 1; if t >= size: t = size - 1
RangeEnd(from, sz, max) ==
  IF from + max - 1 >= sz THEN sz - 1 ELSE from + max - 1

CursorAdvance_stay(to) == to

\* t += 1
CursorAdvance(to) == to + 1

\* headers = {'Range': 'bytes=%d-%d' % range_bytes}, or None without a range
RangeHeaders(range_bytes) ==
  IF range_bytes = NoRange THEN << >>
  ELSE << <<"Range", "bytes=" \o str(range_bytes[1]) \o "-" \o str(range_bytes[2])>> >>

GetOkStatusCode_ok(range_bytes) == OK

\* ok_status_code = requests.codes.ok, or requests.codes.partial with a range
GetOkStatusCode(range_bytes) ==
  IF range_bytes = NoRange THEN OK ELSE PARTIAL

\* The content of the remote item of the declared size, and what the server
\* sends for a request: the bytes of the range, or the whole item.
ItemContent(sz) == Content(IF sz < 0 THEN 0 ELSE sz)

ServedContent(range_bytes, sz) ==
  IF range_bytes = NoRange THEN ItemContent(sz)
  ELSE FileRead(ItemContent(sz), range_bytes[1],
                range_bytes[2] - range_bytes[1] + 1)

(* --------------------------- item addressing -------------------------- *)

\* None as an argument value.
NONE == "None"

\* The drive the item operations are called on is the default drive.
API_URI == "https://api"

DrivePath == "/drive"

ItemIds == {NONE, "id1"}

ItemPaths == {NONE, DrivePath \o "/root:", DrivePath \o "/root:/a"}

NoItemRef == [item_id |-> NONE, item_path |-> NONE]

\* get_item_uri(item_id, item_path)
GetItemUri(item_id, item_path) ==
  IF item_id # NONE
  THEN API_URI \o DrivePath \o "/items/" \o item_id
  ELSE IF item_path # NONE /\ item_path # DrivePath \o "/root:"
       THEN API_URI \o item_path
       ELSE API_URI \o DrivePath \o "/root"

\* if item_id is None and item_path is None: raise ValueError(...)
RequiresItem(item_id, item_path) == item_id = NONE /\ item_path = NONE

(* ---------------------------- drive root ------------------------------ *)

EmptyCache == [d \in {} |-> 0]

NoDriveCall == [name |-> "none", id |-> NONE, error |-> "none"]

\* The drives of the account; GET /drive answers with the default one.
DriveIds == {"d1", "d2"}

DefaultDriveId == "d1"

\* The metadata the server holds for a drive changes over time.
DriveData == 0..MaxVersion

\* DriveObject(root, data, config): the drive id and the rest of _data.
DriveObject(id, v) == [id |-> id, data |-> v]

\* self._cached_drives[drive.drive_id] = drive
CachePut(cache, drive) ==
  [x \in (DOMAIN cache) \cup {drive.id} |->
     IF x = drive.id THEN drive ELSE cache[x]]

\* del self._cached_drives[drive_id], for a key that is present
CacheDelete(cache, id) == [x \in (DOMAIN cache) \ {id} |-> cache[x]]

DriveCall(name, id, error) == [name |-> name, id |-> id, error |-> error]

(* ------------------------------- state -------------------------------- *)

Init ==
  /\ config \in [max_put_size_bytes : 1..MaxThreshold,
                 max_get_size_bytes : 1..MaxThreshold]
  /\ pc = "idle"
  /\ op = "none"
  /\ size = 0
  /\ data = << >>
  /\ expected_ranges = << >>
  /\ current_session = NoSession
  /\ requests = << >>
  /\ responses = << >>
  /\ t = 0
  /\ file = << >>
  /\ result = NoneValue
  /\ item_ref = NoItemRef
  /\ cached_drives = EmptyCache
  /\ handed_drives = {}
  /\ drive_call = NoDriveCall

\* upload_file(filename, data, size): the size dispatch.
UploadFile ==
  /\ pc = "idle"
  /\ \E sz \in 0..MaxSize : \E n \in DataLens(sz) :
       /\ size' = sz
       /\ data' = Content(n)
       /\ pc' = UploadDispatch(sz, config.max_put_size_bytes)
  /\ op' = "upload_file"
  /\ UNCHANGED <<config, expected_ranges, current_session, requests,
                 responses, t, file, result>>
  /\ UNCHANGED <<item_ref, driveVars>>

\* A direct call of put_large_file(filename, data, size).
PutLargeFileCall ==
  /\ pc = "idle"
  /\ \E sz \in Sizes : \E n \in DataLens(sz) :
       /\ size' = sz
       /\ data' = Content(n)
  /\ pc' = "put_large_file"
  /\ op' = "put_large_file"
  /\ UNCHANGED <<config, expected_ranges, current_session, requests,
                 responses, t, file, result>>
  /\ UNCHANGED <<item_ref, driveVars>>

\* put_large_file: POST .../upload.createSession
CreateSessionSend ==
  /\ pc = "put_large_file"
  /\ requests' = Append(requests,
       Request("POST", "upload.createSession", << >>, << >>, OK, NoRange))
  /\ pc' = "session_wait"
  /\ UNCHANGED <<config, op, size, data, expected_ranges, current_session,
                 responses, t, file, result>>
  /\ UNCHANGED <<item_ref, driveVars>>

\* The answer to the POST; on success the session is built and the worklist
\* initialised.
CreateSessionRecv ==
  /\ pc = "session_wait"
  /\ \E status \in ServerStatuses :
     \E body \in IF status = OK THEN SessionBodies ELSE ResponseBodies(status) :
       /\ responses' = Append(responses, [status |-> status, body |-> body])
       /\ IF StatusAccepted(status, Last(requests).ok_status_code)
          THEN /\ current_session' = [upload_url |-> "uploadUrl", next |-> body.next]
               /\ expected_ranges' = InitialRanges(size)
               /\ pc' = "upload_loop"
          ELSE /\ pc' = "raised"
               /\ UNCHANGED <<current_session, expected_ranges>>
  /\ UNCHANGED <<config, op, size, data, requests, t, file, result>>
  /\ UNCHANGED <<item_ref, driveVars>>

\* One iteration of the while loop up to the PUT: pop, clamp, split, read,
\* build the header, send.
PutFragmentSend ==
  /\ pc = "upload_loop"
  /\ Len(expected_ranges) > 0
  /\ LET head == Head(expected_ranges)
         s == SplitRange(head[1], head[2], size, config.max_put_size_bytes)
         chunk == FileRead(data, s.f, s.t - s.f + 1)
         headers == << <<"Content-Range", ContentRange(s.f, s.t, size)>> >>
     IN /\ expected_ranges' = s.inserted \o Tail(expected_ranges)
        /\ requests' = Append(requests,
             Request("PUT", current_session.upload_url, headers, chunk,
                     ACCEPTED, <<s.f, s.t>>))
  /\ pc' = PutSendNextPc
  /\ UNCHANGED <<config, op, size, data, current_session, responses, t,
                 file, result>>
  /\ UNCHANGED <<item_ref, driveVars>>

\* The answer to a fragment PUT.
PutFragmentRecv ==
  /\ pc = "put_wait"
  /\ \E status \in ServerStatuses : \E body \in ResponseBodies(status) :
       LET ok == StatusAccepted(status, Last(requests).ok_status_code)
       IN /\ responses' = Append(responses, [status |-> status, body |-> body])
          /\ current_session' =
               IF ok THEN SessionUpdate(current_session, body)
               ELSE current_session
          /\ pc' = PutResponseNextPc(ok)
  /\ UNCHANGED <<config, op, size, data, expected_ranges, requests, t,
                 file, result>>
  /\ UNCHANGED <<item_ref, driveVars>>

\* The loop ends on an empty worklist; the function has no return statement.
PutLargeFileReturn ==
  /\ pc = "upload_loop"
  /\ Len(expected_ranges) = 0
  /\ pc' = "done"
  /\ result' = NoneValue
  /\ UNCHANGED <<config, op, size, data, expected_ranges, current_session,
                 requests, responses, t, file>>
  /\ UNCHANGED <<item_ref, driveVars>>

\* put_file: one PUT of the whole file object, expecting 201.
PutFileSend ==
  /\ pc = "put_file"
  /\ requests' = Append(requests,
       Request("PUT", "content", << >>, FileRead(data, 0, 0 - 1), CREATED,
               NoRange))
  /\ pc' = "put_file_wait"
  /\ UNCHANGED <<config, op, size, data, expected_ranges, current_session,
                 responses, t, file, result>>
  /\ UNCHANGED <<item_ref, driveVars>>

\* return items.OneDriveItem(self, request.json())
PutFileRecv ==
  /\ pc = "put_file_wait"
  /\ \E status \in ServerStatuses : \E body \in ResponseBodies(status) :
       /\ responses' = Append(responses, [status |-> status, body |-> body])
       /\ IF StatusAccepted(status, Last(requests).ok_status_code)
          THEN pc' = "done" /\ result' = body
          ELSE pc' = "raised" /\ UNCHANGED result
  /\ UNCHANGED <<config, op, size, data, expected_ranges, current_session,
                 requests, t, file>>
  /\ UNCHANGED <<item_ref, driveVars>>

\* download_file(file, size): the size dispatch; the loop starts at t = 0.
DownloadFile ==
  /\ pc = "idle"
  /\ \E sz \in 0..MaxSize :
       /\ size' = sz
       /\ pc' = DownloadDispatch(sz, config.max_get_size_bytes)
  /\ op' = "download_file"
  /\ t' = 0
  /\ UNCHANGED <<config, data, expected_ranges, current_session, requests,
                 responses, file, result>>
  /\ UNCHANGED <<item_ref, driveVars>>

\* get_file_content up to the GET, called without a range (single shot) or
\* from the loop with range_bytes=(f, t).
GetSend(range_bytes) ==
  requests' = Append(requests,
    Request("GET", "content", RangeHeaders(range_bytes), << >>,
            GetOkStatusCode(range_bytes), range_bytes))

GetSingleSend ==
  /\ pc = "get_single"
  /\ GetSend(NoRange)
  /\ pc' = "get_single_wait"
  /\ UNCHANGED <<config, op, size, data, expected_ranges, current_session,
                 responses, t, file, result>>
  /\ UNCHANGED <<item_ref, driveVars>>

\* One iteration of the while loop up to the GET.
GetRangeSend ==
  /\ pc = "get_loop"
  /\ t < size
  /\ LET f == t
         to == RangeEnd(f, size, config.max_get_size_bytes)
     IN /\ GetSend(<<f, to>>)
        /\ t' = to
  /\ pc' = "get_range_wait"
  /\ UNCHANGED <<config, op, size, data, expected_ranges, current_session,
                 responses, file, result>>
  /\ UNCHANGED <<item_ref, driveVars>>

\* The answer to a GET: file.write(request.content) when the status is the
\* expected one.
GetRecv(next_pc) ==
  \E status \in ServerStatuses : \E body \in ResponseBodies(status) :
    /\ responses' = Append(responses, [status |-> status, body |-> body])
    /\ IF StatusAccepted(status, Last(requests).ok_status_code)
       THEN /\ file' = FileWrite(file, ServedContent(Last(requests).range, size))
            /\ pc' = next_pc
       ELSE /\ pc' = "raised"
            /\ UNCHANGED file

GetSingleRecv ==
  /\ pc = "get_single_wait"
  /\ GetRecv("done")
  /\ UNCHANGED <<config, op, size, data, expected_ranges, current_session,
                 requests, t, result>>
  /\ UNCHANGED <<item_ref, driveVars>>

GetRangeRecv ==
  /\ pc = "get_range_wait"
  /\ GetRecv("get_advance")
  /\ UNCHANGED <<config, op, size, data, expected_ranges, current_session,
                 requests, t, result>>
  /\ UNCHANGED <<item_ref, driveVars>>

\* t += 1 after get_file_content returned.
GetAdvance ==
  /\ pc = "get_advance"
  /\ t' = CursorAdvance(t)
  /\ pc' = "get_loop"
  /\ UNCHANGED <<config, op, size, data, expected_ranges, current_session,
                 requests, responses, file, result>>
  /\ UNCHANGED <<item_ref, driveVars>>

\* The loop ends when t reaches size.
DownloadReturn ==
  /\ pc = "get_loop"
  /\ ~(t < size)
  /\ pc' = "done"
  /\ result' = NoneValue
  /\ UNCHANGED <<config, op, size, data, expected_ranges, current_session,
                 requests, responses, t, file>>
  /\ UNCHANGED <<item_ref, driveVars>>

\* delete_item(item_id, item_path): builds the URI and sends the DELETE.
DeleteItem ==
  /\ pc = "idle"
  /\ \E id \in ItemIds : \E path \in ItemPaths :
       /\ item_ref' = [item_id |-> id, item_path |-> path]
       /\ requests' = Append(requests,
            Request("DELETE", GetItemUri(id, path), << >>, << >>, NO_CONTENT,
                    NoRange))
  /\ op' = "delete_item"
  /\ pc' = "item_wait"
  /\ UNCHANGED <<config, transferVars, responses, result, driveVars>>

\* update_item(item_id, item_path, new_name, ...): has_change says whether
\* any new_* argument is set.
UpdateItem ==
  /\ pc = "idle"
  /\ \E id \in ItemIds : \E path \in ItemPaths : \E has_change \in BOOLEAN :
       /\ item_ref' = [item_id |-> id, item_path |-> path]
       /\ IF RequiresItem(id, path) \/ ~has_change
          THEN /\ pc' = "raised"
               /\ UNCHANGED requests
          ELSE /\ pc' = "item_wait"
               /\ requests' = Append(requests,
                    Request("PATCH", GetItemUri(id, path), << >>, << >>, OK,
                            NoRange))
  /\ op' = "update_item"
  /\ UNCHANGED <<config, transferVars, responses, result, driveVars>>

\* copy_item(dest_reference, item_id, item_path): is_reference says whether
\* dest_reference is an ItemReference.
CopyItem ==
  /\ pc = "idle"
  /\ \E id \in ItemIds : \E path \in ItemPaths : \E is_reference \in BOOLEAN :
       /\ item_ref' = [item_id |-> id, item_path |-> path]
       /\ IF ~is_reference \/ RequiresItem(id, path)
          THEN /\ pc' = "raised"
               /\ UNCHANGED requests
          ELSE /\ pc' = "item_wait"
               /\ requests' = Append(requests,
                    Request("POST",
                            GetItemUri(id, path)
                              \o (IF path # NONE THEN ":" ELSE "")
                              \o "/action.copy",
                            << <<"Prefer", "respond-async">> >>, << >>, OK,
                            NoRange))
  /\ op' = "copy_item"
  /\ UNCHANGED <<config, transferVars, responses, result, driveVars>>

\* The answer to the request of an item operation.
ItemRecv ==
  /\ pc = "item_wait"
  /\ \E status \in ServerStatuses : \E body \in ResponseBodies(status) :
       /\ responses' = Append(responses, [status |-> status, body |-> body])
       /\ IF StatusAccepted(status, Last(requests).ok_status_code)
          THEN /\ pc' = "done"
               /\ result' = IF op = "update_item" THEN body
                            ELSE IF op = "copy_item"
                                 THEN [kind |-> "copy_session", next |-> 0]
                                 ELSE NoneValue
          ELSE /\ pc' = "raised"
               /\ UNCHANGED result
  /\ UNCHANGED <<config, op, transferVars, requests, item_ref, driveVars>>

(* ------------------------- DriveRoot operations ----------------------- *)

\* The body of DriveObject.refresh() on drive, called as name: purge the
\* cache entry of the drive id (KeyError when there is none), fetch the drive
\* again through get_drive, which caches the new object, and take its data.
RefreshBody(name, drive) ==
  IF drive.id \notin DOMAIN cached_drives
  THEN /\ drive_call' = DriveCall(name, drive.id, "KeyError")
       /\ UNCHANGED <<cached_drives, handed_drives>>
  ELSE \E ok \in BOOLEAN : \E v \in DriveData :
         IF ok
         THEN /\ cached_drives' =
                   CachePut(CacheDelete(cached_drives, drive.id),
                            DriveObject(drive.id, v))
              /\ handed_drives' =
                   (handed_drives \ {drive}) \cup {DriveObject(drive.id, v)}
              /\ drive_call' = DriveCall(name, drive.id, "none")
         ELSE /\ cached_drives' = CacheDelete(cached_drives, drive.id)
              /\ drive_call' = DriveCall(name, drive.id, "HTTPError")
              /\ UNCHANGED handed_drives

\* DriveRoot.get_drive(drive_id, skip_cache) called as name.
GetDriveBody(name, drive_id, skip_cache) ==
  IF drive_id \in DOMAIN cached_drives
  THEN IF skip_cache
       THEN RefreshBody(name, cached_drives[drive_id])
       ELSE /\ handed_drives' = handed_drives \cup {cached_drives[drive_id]}
            /\ drive_call' = DriveCall(name, drive_id, "none")
            /\ UNCHANGED cached_drives
  ELSE \E ok \in BOOLEAN : \E v \in DriveData :
         LET d == DriveObject(IF drive_id = NONE THEN DefaultDriveId
                              ELSE drive_id, v)
         IN IF ok
            THEN /\ cached_drives' = CachePut(cached_drives, d)
                 /\ handed_drives' = handed_drives \cup {d}
                 /\ drive_call' = DriveCall(name, d.id, "none")
            ELSE /\ drive_call' = DriveCall(name, drive_id, "HTTPError")
                 /\ UNCHANGED <<cached_drives, handed_drives>>

GetDrive ==
  /\ pc = "idle"
  /\ \E drive_id \in DriveIds \cup {NONE} : \E skip_cache \in BOOLEAN :
       GetDriveBody("get_drive", drive_id, skip_cache)
  /\ UNCHANGED <<config, pc, op, transferVars, requests, responses, result,
                 item_ref>>

\* get_default_drive(): return self.get_drive(None)
GetDefaultDrive ==
  /\ pc = "idle"
  /\ GetDriveBody("get_default_drive", NONE, FALSE)
  /\ UNCHANGED <<config, pc, op, transferVars, requests, responses, result,
                 item_ref>>

\* get_all_drives(): a DriveObject for every drive the server lists; none of
\* them is put into the cache.
GetAllDrives ==
  /\ pc = "idle"
  /\ \E ok \in BOOLEAN : \E v \in [DriveIds -> DriveData] :
       IF ok
       THEN /\ handed_drives' =
                 handed_drives \cup {DriveObject(id, v[id]) : id \in DriveIds}
            /\ drive_call' = DriveCall("get_all_drives", NONE, "none")
       ELSE /\ drive_call' = DriveCall("get_all_drives", NONE, "HTTPError")
            /\ UNCHANGED handed_drives
  /\ UNCHANGED <<config, pc, op, transferVars, requests, responses, result,
                 item_ref, cached_drives>>

\* add_cached_drive(account_id, account_type, drive) without its ValueError
\* cases.
AddCachedDriveBody(same_account, same_type, drive) ==
  IF same_account /\ same_type
  THEN cached_drives' = CachePut(cached_drives, drive)
  ELSE UNCHANGED cached_drives

AddCachedDrive ==
  /\ pc = "idle"
  /\ \E same_account \in BOOLEAN : \E same_type \in BOOLEAN :
     \E drive \in handed_drives :
       /\ AddCachedDriveBody(same_account, same_type, drive)
       /\ drive_call' = DriveCall("add_cached_drive", drive.id,
            IF same_account /\ same_type THEN "none" ELSE "ValueError")
  /\ UNCHANGED <<config, pc, op, transferVars, requests, responses, result,
                 item_ref, handed_drives>>

\* purge_drive_cache(drive_id): del self._cached_drives[drive_id]
PurgeDriveCache ==
  /\ pc = "idle"
  /\ \E drive_id \in DriveIds :
       IF drive_id \in DOMAIN cached_drives
       THEN /\ cached_drives' = CacheDelete(cached_drives, drive_id)
            /\ drive_call' = DriveCall("purge_drive_cache", drive_id, "none")
       ELSE /\ drive_call' = DriveCall("purge_drive_cache", drive_id, "KeyError")
            /\ UNCHANGED cached_drives
  /\ UNCHANGED <<config, pc, op, transferVars, requests, responses, result,
                 item_ref, handed_drives>>

\* DriveObject.load(drive_root, account_id, account_type, s): the drive is
\* returned whether or not add_cached_drive accepted it.
Load ==
  /\ pc = "idle"
  /\ \E same_account \in BOOLEAN : \E same_type \in BOOLEAN :
     \E id \in DriveIds : \E v \in DriveData :
       /\ AddCachedDriveBody(same_account, same_type, DriveObject(id, v))
       /\ handed_drives' = handed_drives \cup {DriveObject(id, v)}
       /\ drive_call' = DriveCall("load", id, "none")
  /\ UNCHANGED <<config, pc, op, transferVars, requests, responses, result,
                 item_ref>>

\* refresh() on a DriveObject the caller holds.
Refresh ==
  /\ pc = "idle"
  /\ \E drive \in handed_drives : RefreshBody("refresh", drive)
  /\ UNCHANGED <<config, pc, op, transferVars, requests, responses, result,
                 item_ref>>

DriveNext ==
  \/ GetDrive
  \/ GetDefaultDrive
  \/ GetAllDrives
  \/ AddCachedDrive
  \/ PurgeDriveCache
  \/ Load
  \/ Refresh

\* The drive root on its own: its cache is independent of the transfers.
DriveSpec == Init /\ [][DriveNext]_vars

Next ==
  \/ UploadFile
  \/ PutLargeFileCall
  \/ CreateSessionSend
  \/ CreateSessionRecv
  \/ PutFragmentSend
  \/ PutFragmentRecv
  \/ PutLargeFileReturn
  \/ PutFileSend
  \/ PutFileRecv
  \/ DownloadFile
  \/ GetSingleSend
  \/ GetSingleRecv
  \/ GetRangeSend
  \/ GetRangeRecv
  \/ GetAdvance
  \/ DownloadReturn
  \/ DeleteItem
  \/ UpdateItem
  \/ CopyItem
  \/ ItemRecv

Spec == Init /\ [][Next]_vars

\* The calls are synchronous and sequential: a call that has started keeps
\* running, and every blocking request returns or raises.
FairSpec == Spec /\ WF_vars(Next)

(* ------------------------- derived observations ----------------------- *)

IsFragmentPut(r) == r.method = "PUT" /\ r.range # NoRange

IsRangedGet(r) == r.method = "GET" /\ r.range # NoRange

\* The fragment PUTs and the ranged GETs issued so far, in order.
Fragments == SelectSeq(requests, IsFragmentPut)

RangedGets == SelectSeq(requests, IsRangedGet)

IsUpload == op \in {"upload_file", "put_large_file"}

\* The call is (or was) inside put_large_file.
InPutLargeFile ==
  /\ IsUpload
  /\ Len(requests) > 0
  /\ requests[1].method = "POST"

\* rs is a sequence of requests whose ranges start at 0, follow each other
\* without gap or overlap, are non-empty and at most max bytes long.
OrderedRanges(rs, max) ==
  /\ Len(rs) > 0 => rs[1].range[1] = 0
  /\ \A i \in 1..Len(rs) :
       /\ rs[i].range[1] <= rs[i].range[2]
       /\ rs[i].range[2] - rs[i].range[1] + 1 <= max
       /\ i > 1 => rs[i].range[1] = rs[i - 1].range[2] + 1

\* Fragment k of a chunked upload is request k + 1 (the POST is request 1).
FragmentAnswered(k) == Len(responses) >= k + 1

FragmentStatus(k) == responses[k + 1].status

(* ------------------------------- claims ------------------------------- *)

\* C1: for total_size >= 1 the (from, to) ranges put_large_file submits
\* start at 0, each next one starts at the previous to + 1, none is longer
\* than max_put_size_bytes, and when the upload has completed the last one
\* ends at total_size - 1.
C1_UploadRangesPartition ==
  (IsUpload /\ size >= 1) =>
    /\ OrderedRanges(Fragments, config.max_put_size_bytes)
    /\ (pc = "done" /\ InPutLargeFile) =>
         /\ Len(Fragments) > 0
         /\ Last(Fragments).range[2] = size - 1

C1_Witness ==
  /\ op = "upload_file"
  /\ pc = "done"
  /\ Len(Fragments) >= 3
  /\ Last(Fragments).range[2] - Last(Fragments).range[1] + 1
       < config.max_put_size_bytes

\* C2: for total_size > max_get_size_bytes >= 1 the (from, to) ranges
\* download_file requests start at 0, each next one starts at the previous
\* to + 1, none spans more than max_get_size_bytes, and when the download
\* has completed the last one ends at total_size - 1.
C2_DownloadRangesPartition ==
  (op = "download_file" /\ size > config.max_get_size_bytes) =>
    /\ OrderedRanges(RangedGets, config.max_get_size_bytes)
    /\ pc = "done" =>
         /\ Len(RangedGets) > 0
         /\ Last(RangedGets).range[2] = size - 1

C2_Witness ==
  /\ op = "download_file"
  /\ pc = "done"
  /\ Len(RangedGets) >= 3
  /\ Last(RangedGets).range[2] - Last(RangedGets).range[1] + 1
       < config.max_get_size_bytes

\* The server answered every fragment sent so far, 202 to each interim
\* fragment and 201 to the fragment that ends at total_size - 1.
ServerFollowedUploadProtocol ==
  /\ Len(Fragments) > 0
  /\ Len(responses) = Len(requests)
  /\ Last(Fragments).range[2] = size - 1
  /\ \A k \in 1..Len(Fragments) :
       FragmentStatus(k) = IF k = Len(Fragments) THEN CREATED ELSE ACCEPTED

\* C3: a chunked upload in which the server answers 202 to every interim
\* fragment and 201 to the final fragment does not raise.
C3_FinalCreatedIsSuccess ==
  (InPutLargeFile /\ size >= 1 /\ ServerFollowedUploadProtocol) =>
    pc # "raised"

\* C4: when all fragments are acknowledged, put_large_file returns the item
\* metadata carried by the response to the final fragment.
C4_ReturnsFinalItem ==
  (InPutLargeFile /\ size >= 1 /\ pc = "done") =>
    /\ result = Last(responses).body
    /\ result.kind = "item"

UnexpectedFragmentStatus(status) == status \notin {ACCEPTED, CREATED}

\* C5: if the PUT of the k-th fragment is answered with an unexpected
\* status, the call has failed and fragment k is the last one ever sent.
C5_AbortOnFragmentFailure ==
  InPutLargeFile =>
    \A k \in 1..Len(Fragments) :
      (FragmentAnswered(k) /\ UnexpectedFragmentStatus(FragmentStatus(k))) =>
        /\ pc = "raised"
        /\ Len(Fragments) = k

C5_Witness ==
  /\ InPutLargeFile
  /\ pc = "raised"
  /\ Len(Fragments) = 2
  /\ FragmentAnswered(2)
  /\ FragmentStatus(2) = SERVER_ERROR
  /\ Len(expected_ranges) > 0

\* C6: leaving the idle state, upload_file enters put_file exactly when
\* size <= max_put_size_bytes and put_large_file otherwise, download_file
\* enters the single GET exactly when size <= max_get_size_bytes and the
\* ranged loop otherwise, and the decision issues no request.
C6_SizeDispatch ==
  [][ (pc = "idle" /\ op' = "upload_file" =>
         /\ requests' = requests
         /\ pc' = IF size' <= config.max_put_size_bytes
                  THEN "put_file" ELSE "put_large_file")
      /\
      (pc = "idle" /\ op' = "download_file" =>
         /\ requests' = requests
         /\ pc' = IF size' <= config.max_get_size_bytes
                  THEN "get_single" ELSE "get_loop") ]_vars

C6_Witness ==
  /\ op = "upload_file"
  /\ pc = "put_file"
  /\ size = config.max_put_size_bytes

\* C7: every fragment PUT carries the header
\* Content-Range: bytes <from>-<to>/<total_size> for the fragment it sends.
C7_ContentRangeHeader ==
  \A i \in 1..Len(Fragments) :
    LET r == Fragments[i]
    IN r.headers =
         << <<"Content-Range",
              "bytes " \o ToString(r.range[1]) \o "-" \o ToString(r.range[2])
                \o "/" \o ToString(size)>> >>

\* C8: every GET of the ranged loop carries Range: bytes=<from>-<to> and is
\* accepted only with 206; the single-shot GET carries no Range header and
\* is accepted only with 200.
C8_GetHeadersAndStatus ==
  op = "download_file" =>
    \A i \in 1..Len(requests) :
      LET r == requests[i]
          ranged == size > config.max_get_size_bytes
          expected == IF ranged THEN PARTIAL ELSE OK
      IN /\ r.method = "GET"
         /\ IF ranged
            THEN /\ r.range # NoRange
                 /\ r.headers =
                      << <<"Range",
                           "bytes=" \o ToString(r.range[1]) \o "-"
                             \o ToString(r.range[2])>> >>
            ELSE r.headers = << >>
         /\ (i <= Len(responses) /\ responses[i].status # expected) =>
              /\ pc = "raised"
              /\ i = Len(requests)

C8_Witness ==
  /\ op = "download_file"
  /\ size > config.max_get_size_bytes
  /\ pc = "raised"
  /\ Len(requests) = 2
  /\ Len(responses) = 2
  /\ responses[2].status = OK

\* The number of item bytes covered by the ranges completed so far.
CompletedBytes ==
  LET done == {i \in 1..Len(responses) : responses[i].status = PARTIAL}
  IN IF done = {} THEN 0
     ELSE requests[CHOOSE i \in done : \A j \in done : j <= i].range[2] + 1

\* C9: in a ranged download the sink is only appended to, holds exactly the
\* item bytes [0, to] of the last completed range, and holds the whole item
\* on completion.
C9_SinkIsOrderedPrefix ==
  /\ [] ((op = "download_file" /\ size > config.max_get_size_bytes) =>
           /\ file = SubSeq(ItemContent(size), 1, CompletedBytes)
           /\ pc = "done" => file = ItemContent(size))
  /\ [][ /\ Len(file') >= Len(file)
         /\ SubSeq(file', 1, Len(file)) = file ]_vars

C9_Witness ==
  /\ op = "download_file"
  /\ size > config.max_get_size_bytes
  /\ pc = "done"
  /\ Len(requests) >= 3
  /\ Len(file) = size

\* C10: put_large_file called with total_size <= 0 issues no request at all.
C10_RejectsNonPositiveSize ==
  (op = "put_large_file" /\ size <= 0) => requests = << >>

IsItemOperation == op \in {"update_item", "copy_item", "delete_item"}

\* C11: update_item, copy_item and delete_item called with neither item_id
\* nor item_path are rejected before any HTTP request is issued.
C11_ItemRequired ==
  (IsItemOperation /\ item_ref.item_id = NONE /\ item_ref.item_path = NONE) =>
    /\ pc = "raised"
    /\ requests = << >>

\* Requests sent and not yet answered.
Outstanding == Len(requests) - Len(responses)

\* C12: within a chunked upload at most one request is outstanding, and a
\* fragment PUT is in flight only after the previous response has been
\* received and applied to the session.
C12_OneFragmentInFlight ==
  InPutLargeFile =>
    /\ Outstanding \in {0, 1}
    /\ pc = "put_wait" =>
         /\ Outstanding = 1
         /\ current_session.next = Last(responses).body.next

C12_Witness ==
  /\ InPutLargeFile
  /\ pc = "put_wait"
  /\ Len(Fragments) = 3
  /\ Len(responses) = 3

\* The k-th range of the local plan for a content of sz bytes cut into
\* fragments of max bytes.
PlanRange(k, sz, max) == <<(k - 1) * max, Min(k * max - 1, sz - 1)>>

\* C13: the k-th fragment submitted is a function of k, total_size and
\* max_put_size_bytes alone, whatever session bodies the server returned, so
\* two uploads with the same size and threshold submit the same fragments.
C13_PlanIgnoresSession ==
  InPutLargeFile =>
    /\ \A k \in 1..Len(Fragments) :
         Fragments[k].range = PlanRange(k, size, config.max_put_size_bytes)
    /\ pc = "upload_loop" =>
         (expected_ranges = << >>
            <=> (Len(Fragments) > 0 /\ Last(Fragments).range[2] >= size - 1))

C13_Witness ==
  /\ InPutLargeFile
  /\ pc = "done"
  /\ Len(Fragments) >= 3
  /\ \E i, j \in 1..Len(responses) :
       /\ responses[i].body.kind = "session"
       /\ responses[j].body.kind = "session"
       /\ responses[i].body.next # responses[j].body.next

RangeLength(r) == r.range[2] - r.range[1] + 1

\* C14: no fragment PUT and no ranged GET is empty; a chunked upload of
\* k * max bytes sends exactly k fragments of max bytes; a transfer of exactly
\* the threshold issues one request for the whole content.
C14_NoZeroLengthFragment ==
  /\ \A i \in 1..Len(Fragments) : RangeLength(Fragments[i]) >= 1
  /\ \A i \in 1..Len(RangedGets) : RangeLength(RangedGets[i]) >= 1
  /\ (InPutLargeFile /\ pc = "done" /\ size >= 1
        /\ size % config.max_put_size_bytes = 0) =>
       /\ Len(Fragments) = size \div config.max_put_size_bytes
       /\ \A i \in 1..Len(Fragments) :
            RangeLength(Fragments[i]) = config.max_put_size_bytes
  /\ (op = "upload_file" /\ pc = "done"
        /\ size = config.max_put_size_bytes) => Len(requests) = 1
  /\ (op = "download_file" /\ pc = "done"
        /\ size = config.max_get_size_bytes) =>
       /\ Len(requests) = 1
       /\ file = ItemContent(size)

RECURSIVE ConcatBodies(_)

\* The bodies of the requests rs one after the other.
ConcatBodies(rs) ==
  IF rs = << >> THEN << >> ELSE rs[1].body \o ConcatBodies(Tail(rs))

\* C15: for a source of at least total_size bytes the body of each fragment
\* PUT is the source bytes at offsets from..to of its range, and the bodies
\* of a completed upload concatenated are the first total_size bytes.
C15_FragmentBodies ==
  (InPutLargeFile /\ size >= 0 /\ Len(data) >= size) =>
    /\ \A i \in 1..Len(Fragments) :
         LET r == Fragments[i]
         IN /\ Len(r.body) = r.range[2] - r.range[1] + 1
            /\ \A j \in 1..Len(r.body) : r.body[j] = data[r.range[1] + j]
    /\ pc = "done" => ConcatBodies(Fragments) = SubSeq(data, 1, size)

C15_Witness ==
  /\ InPutLargeFile
  /\ pc = "done"
  /\ Len(Fragments) >= 3
  /\ Len(data) > size
  /\ Len(Last(Fragments).body) = 1

RECURSIVE CompletedContent(_)

\* What the server sent for the first n requests of a download.
CompletedContent(n) ==
  IF n = 0 THEN << >>
  ELSE CompletedContent(n - 1) \o ServedContent(requests[n].range, size)

\* C16: if a ranged GET of a chunked download fails with a status mismatch,
\* download_file has raised, that GET is the last request, and the sink
\* holds exactly the bytes of the ranges completed before it.
C16_RangedGetFailure ==
  (op = "download_file" /\ size > config.max_get_size_bytes) =>
    \A i \in 1..Len(responses) :
      responses[i].status # PARTIAL =>
        /\ pc = "raised"
        /\ i = Len(requests)
        /\ file = CompletedContent(i - 1)

C16_Witness ==
  /\ op = "download_file"
  /\ size > config.max_get_size_bytes
  /\ pc = "raised"
  /\ Len(requests) = 3
  /\ Len(file) = 2 * config.max_get_size_bytes

Ceil(a, b) == (a + b - 1) \div b

Finished == pc \in {"done", "raised"}

\* C17 as stated: for every total_size >= 1 and max >= 1 a successful
\* put_large_file ends with an empty worklist after ceil(size / max_put)
\* fragment PUTs and a successful download_file ends with the cursor at size
\* after ceil(size / max_get) ranged GETs.
C17_LoopCountsAsStated ==
  (pc = "done" /\ size >= 1) =>
    /\ InPutLargeFile =>
         /\ expected_ranges = << >>
         /\ Len(Fragments) = Ceil(size, config.max_put_size_bytes)
    /\ op = "download_file" =>
         /\ t = size
         /\ Len(RangedGets) = Ceil(size, config.max_get_size_bytes)

\* C17 amended: both loops terminate; put_large_file with total_size >= 1
\* ends with an empty worklist after exactly ceil(size / max_put) fragment
\* PUTs, and download_file with total_size > max_get_size_bytes ends with
\* the cursor at size after exactly ceil(size / max_get) ranged GETs, while
\* with total_size <= max_get_size_bytes it issues no ranged GET.
C17_LoopsTerminate ==
  /\ [] ((InPutLargeFile /\ size >= 1) =>
           /\ Len(Fragments) <= Ceil(size, config.max_put_size_bytes)
           /\ pc = "done" =>
                /\ expected_ranges = << >>
                /\ Len(Fragments) = Ceil(size, config.max_put_size_bytes))
  /\ [] ((op = "download_file" /\ size > config.max_get_size_bytes) =>
           /\ Len(RangedGets) <= Ceil(size, config.max_get_size_bytes)
           /\ pc = "done" =>
                /\ t = size
                /\ Len(RangedGets) = Ceil(size, config.max_get_size_bytes))
  /\ [] ((op = "download_file" /\ size <= config.max_get_size_bytes) =>
           Len(RangedGets) = 0)
  /\ [] ((IsUpload \/ op = "download_file") => <>Finished)

C17_Witness ==
  /\ op = "download_file"
  /\ pc = "done"
  /\ config.max_get_size_bytes = 1
  /\ t = size
  /\ Len(RangedGets) >= 3

\* C18: the split step leaves a popped entry (from, to) of at most
\* max_put_size_bytes bytes unchanged and inserts nothing, and applied to
\* the fragment produced by a split it changes nothing.
C18_SplitIdempotent ==
  IsUpload =>
    LET max == config.max_put_size_bytes
        Kept(f, to) == [f |-> f, t |-> to, inserted |-> << >>]
    IN /\ \A f \in 0..size : \A to \in (f - 1)..(size - 1) :
            /\ to - f + 1 <= max => SplitRange(f, to, size, max) = Kept(f, to)
            /\ LET s == SplitRange(f, to, size, max)
               IN SplitRange(s.f, s.t, size, max) = Kept(s.f, s.t)
       /\ \A i \in 1..Len(Fragments) :
            SplitRange(Fragments[i].range[1], Fragments[i].range[2], size, max)
              = Kept(Fragments[i].range[1], Fragments[i].range[2])
       /\ \A i \in 1..Len(expected_ranges) :
            LET e == expected_ranges[i]
            IN e[2] - e[1] + 1 <= max =>
                 SplitRange(e[1], e[2], size, max) = Kept(e[1], e[2])

C18_Witness ==
  /\ InPutLargeFile
  /\ pc = "put_wait"
  /\ Len(Fragments) >= 2
  /\ expected_ranges = << >>
  /\ RangeLength(Last(Fragments)) = config.max_put_size_bytes

RECURSIVE SubmittedBytes(_)

\* The number of bytes covered by the fragments rs.
SubmittedBytes(rs) ==
  IF rs = << >> THEN 0 ELSE RangeLength(rs[1]) + SubmittedBytes(Tail(rs))

\* C19: for total_size >= 1, at the start of every loop iteration the
\* worklist holds at most one entry, which is (c, total_size - 1) for the
\* number c of bytes already submitted, and it is empty exactly when
\* c = total_size.
C19_WorklistInvariant ==
  (InPutLargeFile /\ size >= 1 /\ pc = "upload_loop") =>
    LET c == SubmittedBytes(Fragments)
    IN /\ Len(expected_ranges) <= 1
       /\ Len(expected_ranges) = 1 => expected_ranges[1] = <<c, size - 1>>
       /\ expected_ranges = << >> <=> c = size

C19_Witness ==
  /\ InPutLargeFile
  /\ size >= 1
  /\ pc = "upload_loop"
  /\ Len(Fragments) = 2
  /\ Len(expected_ranges) = 1

\* C20: refresh() on a DriveObject handed out by the root never fails on a
\* missing cache key, and after a refresh the cache holds the drive's id.
C20_RefreshFindsCacheEntry ==
  drive_call.name = "refresh" =>
    /\ drive_call.error # "KeyError"
    /\ drive_call.error = "none" => drive_call.id \in DOMAIN cached_drives

====
